---- MODULE Spec2Model ----
(***************************************************************************)
(* LogAnalyzer of test_environment/scripts/analyze_logs.py: the two log    *)
(* files, the three analysis methods and generate_report, with the         *)
(* processes that append to the log files while the analyzer runs.         *)
(*                                                                         *)
(* Text is a sequence of one-character strings, so that the regular        *)
(* expressions, strip(), split(), lower() and the substring tests are      *)
(* computed character by character as Python computes them.                *)
(***************************************************************************)
EXTENDS Integers, Sequences, FiniteSets, TLC

VARIABLES
    serial_exists,    \* os.path.exists(self.serial_log)
    mqtt_exists,      \* os.path.exists(self.mqtt_log)
    serial_file,      \* lines of serial_monitor.log, each with its "\n"
    mqtt_file,        \* lines of mqtt_messages.log, each with its "\n"
    now,              \* the clock datetime.now() reads
    dest_writable,    \* whether open(report_file, 'w') succeeds
    pc,               \* position of the analyzer
    caller,           \* who called correlate_command_responses
    serial_ret,       \* value returned by a direct analyze_serial_log call
    mqtt_ret,         \* value returned by a direct analyze_mqtt_log call
    gr_serial_data,   \* generate_report's local serial_data
    gr_mqtt_data,     \* generate_report's local mqtt_data
    gr_correlations,  \* generate_report's local correlations
    mqtt_data,        \* correlate_command_responses' local mqtt_data
    serial_data,      \* correlate_command_responses' local serial_data
    correlations,     \* correlate_command_responses' local correlations
    correlation,      \* the Correlation under construction in the loop
    cmd_idx,          \* number of commands the loop has taken up
    corr_ret,         \* value correlate_command_responses returned
    report,           \* the JSON document written to report_file
    exception         \* the exception that ended the run, if any

vars == <<serial_exists, mqtt_exists, serial_file, mqtt_file, now, dest_writable,
          pc, caller, serial_ret, mqtt_ret, gr_serial_data, gr_mqtt_data,
          gr_correlations, mqtt_data, serial_data, correlations, correlation,
          cmd_idx, corr_ret, report, exception>>

(***************************************************************************)
(* Bounds of the model.                                                    *)
(***************************************************************************)
MaxSerialLines == 3
MaxMqttLines == 2
MaxCorrSerialLines == 2
MaxCorrMqttLines == 3
MaxRunSerialLines == 1
MaxRunMqttLines == 2
MaxClock == 1

(***************************************************************************)
(* Characters and the string methods the analyzer uses.                    *)
(***************************************************************************)
UpperAlpha == <<"A","B","C","D","E","F","G","H","I","J","K","L","M",
                "N","O","P","Q","R","S","T","U","V","W","X","Y","Z">>
LowerAlpha == <<"a","b","c","d","e","f","g","h","i","j","k","l","m",
                "n","o","p","q","r","s","t","u","v","w","x","y","z">>
Range(s) == {s[i] : i \in 1..Len(s)}
Digit == {"0","1","2","3","4","5","6","7","8","9"}
\* \w of the re module
WordChar == Range(UpperAlpha) \cup Range(LowerAlpha) \cup Digit \cup {"_"}
\* \s of the re module, and what strip() and split() take as white space
Whitespace == {" ", "\t", "\n", "\r", "\f"}
\* what "." does not match
Newline == {"\n"}

SetMax(S) == CHOOSE x \in S : \A y \in S : y <= x
SetMin(S) == CHOOSE x \in S : \A y \in S : x <= y

\* str.lower()
LowerChar(c) ==
    IF \E k \in 1..Len(UpperAlpha) : UpperAlpha[k] = c
    THEN LowerAlpha[CHOOSE k \in 1..Len(UpperAlpha) : UpperAlpha[k] = c]
    ELSE c
Lower(s) == [i \in 1..Len(s) |-> LowerChar(s[i])]

\* sub in s
Contains(sub, s) ==
    \E i \in 0..(Len(s) - Len(sub)) : SubSeq(s, i + 1, i + Len(sub)) = sub

\* str.strip()
Strip(s) ==
    LET keep == {i \in 1..Len(s) : s[i] \notin Whitespace}
    IN  IF keep = {} THEN <<>> ELSE SubSeq(s, SetMin(keep), SetMax(keep))

\* str.split(): the maximal runs of non-white-space characters, in order
RECURSIVE SplitFrom(_, _)
SplitFrom(s, i) ==
    IF i > Len(s) THEN <<>>
    ELSE IF s[i] \in Whitespace THEN SplitFrom(s, i + 1)
    ELSE LET j == SetMax({k \in i..Len(s) :
                            \A m \in i..k : s[m] \notin Whitespace})
         IN  <<SubSeq(s, i, j)>> \o SplitFrom(s, j + 1)
Split(s) == SplitFrom(s, 1)

\* the end of the longest run of characters of Class that starts at position
\* start (start - 1 when the run is empty): a greedy "+" of the re module
RunEndIn(s, start, Class) ==
    SetMax({start - 1} \cup
           {j \in start..Len(s) : \A k \in start..j : s[k] \in Class})
RunEndNotIn(s, start, Class) ==
    SetMax({start - 1} \cup
           {j \in start..Len(s) : \A k \in start..j : s[k] \notin Class})
At(s, i, c) == i >= 1 /\ i <= Len(s) /\ s[i] = c

\* dict.get(key, default)
Get(d, key, default) == IF key \in DOMAIN d THEN d[key] ELSE default
\* a local that has not been assigned yet
None == [unset |-> TRUE]
NoMatch == [matched |-> FALSE]

(***************************************************************************)
(* The string literals of the code.                                        *)
(***************************************************************************)
\* [MQTT]
MQTT_MARKER ==
    <<"[","M","Q","T","T","]">>
\* ESP-ROM:esp32
ESP_ROM ==
    <<"E","S","P","-","R","O","M",":","e","s","p","3","2">>
\* Rebooting...
REBOOTING ==
    <<"R","e","b","o","o","t","i","n","g",".",".",".">>
\* /command
CMD_SEGMENT ==
    <<"/","c","o","m","m","a","n","d">>
\* /status
STATUS_SEGMENT ==
    <<"/","s","t","a","t","u","s">>
\* homeassistant/
HA_PREFIX ==
    <<"h","o","m","e","a","s","s","i","s","t","a","n","t","/">>

(***************************************************************************)
(* Ordered dictionaries (defaultdict(list); a dict keeps insertion order): *)
(* a sequence of [key, value] items in the order the keys were first used. *)
(***************************************************************************)
DictAppend_Prepend(d, k, e) ==
    IF \E i \in 1..Len(d) : d[i].key = k
    THEN LET i == CHOOSE i \in 1..Len(d) : d[i].key = k
         IN  [d EXCEPT ![i].value = <<e>> \o @]
    ELSE Append(d, [key |-> k, value |-> <<e>>])
\* d[k].append(e)
DictAppend(d, k, e) ==
    IF \E i \in 1..Len(d) : d[i].key = k
    THEN LET i == CHOOSE i \in 1..Len(d) : d[i].key = k
         IN  [d EXCEPT ![i].value = Append(@, e)]
    ELSE Append(d, [key |-> k, value |-> <<e>>])

(***************************************************************************)
(* analyze_serial_log                                                      *)
(***************************************************************************)
\* the first character class of the pattern of line 40
LevelClass == {"E", "W", "I", "D"}

\* r'([EWID]) \((\d+)\) (\w+): (.+)' tried at position i of the line
SerialMatchAt(line, i) ==
    LET dEnd == RunEndIn(line, i + 3, Digit)
        wEnd == RunEndIn(line, dEnd + 3, WordChar)
        mEnd == RunEndNotIn(line, wEnd + 3, Newline)
    IN  IF /\ i >= 1 /\ i <= Len(line) /\ line[i] \in LevelClass
           /\ At(line, i + 1, " ") /\ At(line, i + 2, "(")
           /\ dEnd >= i + 3
           /\ At(line, dEnd + 1, ")") /\ At(line, dEnd + 2, " ")
           /\ wEnd >= dEnd + 3
           /\ At(line, wEnd + 1, ":") /\ At(line, wEnd + 2, " ")
           /\ mEnd >= wEnd + 3
        THEN [matched |-> TRUE,
              level |-> line[i],
              timestamp |-> SubSeq(line, i + 3, dEnd),
              tag |-> SubSeq(line, dEnd + 3, wEnd),
              message |-> SubSeq(line, wEnd + 3, mEnd)]
        ELSE NoMatch

\* re.search: the match at the leftmost position that has one
SerialMatch(line) ==
    LET starts == {i \in 1..Len(line) : SerialMatchAt(line, i).matched}
    IN  IF starts = {} THEN NoMatch ELSE SerialMatchAt(line, SetMin(starts))

\* the entry of lines 42-46. The code's entry has the keys timestamp, tag and
\* message; level is the matched level letter, carried along so that
\* properties can speak of a record's severity. Nothing the analyzer
\* computes reads it.
SerialEntry(m) ==
    [timestamp |-> m.timestamp, tag |-> m.tag, message |-> Strip(m.message),
     level |-> m.level]

\* lines 48-55: the severity lists and the tag index
AddRecord_IndexKnownLevels(results, level, entry) ==
    LET r == IF level = "E"
             THEN [results EXCEPT !.errors = Append(@, entry)]
             ELSE IF level = "W"
             THEN [results EXCEPT !.warnings = Append(@, entry)]
             ELSE IF level = "I"
             THEN [results EXCEPT !.info_messages = Append(@, entry)]
             ELSE results
    IN  IF level \in {"E", "W", "I"}
        THEN [r EXCEPT !.esp_logs = DictAppend(@, entry.tag, entry)]
        ELSE r
AddRecord(results, level, entry) ==
    LET r == IF level = "E"
             THEN [results EXCEPT !.errors = Append(@, entry)]
             ELSE IF level = "W"
             THEN [results EXCEPT !.warnings = Append(@, entry)]
             ELSE IF level = "I"
             THEN [results EXCEPT !.info_messages = Append(@, entry)]
             ELSE results
    IN  [r EXCEPT !.esp_logs = DictAppend(@, entry.tag, entry)]

\* line 58
IsRebootLine(line) == Contains(ESP_ROM, line) \/ Contains(REBOOTING, line)

\* the body of the loop of lines 36-59 for one line
SerialLine(results, line) ==
    LET m  == SerialMatch(line)
        r0 == [results EXCEPT !.total_lines = @ + 1]
        r1 == IF m.matched THEN AddRecord(r0, m.level, SerialEntry(m)) ELSE r0
    IN  IF IsRebootLine(line)
        THEN [r1 EXCEPT !.reboots = Append(@, Strip(line))]
        ELSE r1

\* lines 25-33
SerialResults0 ==
    [total_lines |-> 0, errors |-> <<>>, warnings |-> <<>>,
     info_messages |-> <<>>, esp_logs |-> <<>>, reboots |-> <<>>,
     timestamps |-> <<>>]

RECURSIVE SerialFold(_, _, _)
SerialFold(results, file, k) ==
    IF k > Len(file) THEN results
    ELSE SerialFold(SerialLine(results, file[k]), file, k + 1)

SERIAL_NOT_FOUND == "Serial log not found"
MQTT_NOT_FOUND == "MQTT log not found"

analyze_serial_log(exists, file) ==
    IF ~exists THEN [error |-> SERIAL_NOT_FOUND]
    ELSE SerialFold(SerialResults0, file, 1)

(***************************************************************************)
(* analyze_mqtt_log                                                        *)
(***************************************************************************)
\* r'\[MQTT\] ([^\s]+) (.+)' tried at position i of the line
MqttMatchAt(line, i) ==
    LET n    == Len(MQTT_MARKER)
        tEnd == RunEndNotIn(line, i + n + 1, Whitespace)
        pEnd == RunEndNotIn(line, tEnd + 2, Newline)
    IN  IF /\ i >= 1 /\ i + n <= Len(line)
           /\ SubSeq(line, i, i + n - 1) = MQTT_MARKER
           /\ line[i + n] = " "
           /\ tEnd >= i + n + 1
           /\ At(line, tEnd + 1, " ")
           /\ pEnd >= tEnd + 2
        THEN [matched |-> TRUE,
              topic |-> SubSeq(line, i + n + 1, tEnd),
              payload |-> SubSeq(line, tEnd + 2, pEnd)]
        ELSE NoMatch

MqttMatch(line) ==
    LET starts == {i \in 1..Len(line) : MqttMatchAt(line, i).matched}
    IN  IF starts = {} THEN NoMatch ELSE MqttMatchAt(line, SetMin(starts))

\* lines 86-90; clock is what datetime.now() reads
MqttEntry(m, clock) ==
    [topic |-> m.topic, payload |-> Strip(m.payload), timestamp |-> clock]

\* lines 94-100
Categorize_StatusFirst(results, entry) ==
    IF Contains(STATUS_SEGMENT, entry.topic)
    THEN [results EXCEPT !.status_messages = Append(@, entry)]
    ELSE IF Contains(CMD_SEGMENT, entry.topic)
    THEN [results EXCEPT !.commands_sent = Append(@, entry)]
    ELSE IF Contains(HA_PREFIX, entry.topic)
    THEN [results EXCEPT !.home_assistant_configs = @ + 1]
    ELSE results
Categorize(results, entry) ==
    IF Contains(CMD_SEGMENT, entry.topic)
    THEN [results EXCEPT !.commands_sent = Append(@, entry)]
    ELSE IF Contains(STATUS_SEGMENT, entry.topic)
    THEN [results EXCEPT !.status_messages = Append(@, entry)]
    ELSE IF Contains(HA_PREFIX, entry.topic)
    THEN [results EXCEPT !.home_assistant_configs = @ + 1]
    ELSE results

\* the body of the loop of lines 78-100 for one line
MqttLine(results, line, clock) ==
    IF ~Contains(MQTT_MARKER, line) THEN results
    ELSE LET r0 == [results EXCEPT !.total_messages = @ + 1]
             m  == MqttMatch(line)
         IN  IF ~m.matched THEN r0
             ELSE LET entry == MqttEntry(m, clock)
                  IN  Categorize([r0 EXCEPT !.topics =
                                     DictAppend(@, entry.topic, entry)],
                                 entry)

\* lines 68-75
MqttResults0 ==
    [total_messages |-> 0, topics |-> <<>>, commands_sent |-> <<>>,
     responses_received |-> <<>>, home_assistant_configs |-> 0,
     status_messages |-> <<>>]

RECURSIVE MqttFold(_, _, _, _)
MqttFold(results, file, k, clock) ==
    IF k > Len(file) THEN results
    ELSE MqttFold(MqttLine(results, file[k], clock), file, k + 1, clock)

analyze_mqtt_log(exists, file, clock) ==
    IF ~exists THEN [error |-> MQTT_NOT_FOUND]
    ELSE MqttFold(MqttResults0, file, 1, clock)

(***************************************************************************)
(* correlate_command_responses                                             *)
(***************************************************************************)
\* line 121
BusSideMatch_CaseSensitive(cmd, status) ==
    Contains(cmd.payload, Lower(status.payload))
BusSideMatch(cmd, status) ==
    Contains(Lower(cmd.payload), Lower(status.payload))

\* lines 120-122
MqttResponses(cmd, statuses) ==
    LET Test(status) == BusSideMatch(cmd, status)
    IN  SelectSeq(statuses, Test)

\* lines 127-132 for the logs of one tag
RECURSIVE TagResponses(_, _, _, _)
TagResponses(tag, logs, keyword, k) ==
    IF k > Len(logs) THEN <<>>
    ELSE (IF Contains(keyword, Lower(logs[k].message))
          THEN <<[tag |-> tag, message |-> logs[k].message]>>
          ELSE <<>>) \o TagResponses(tag, logs, keyword, k + 1)

\* lines 126-132
RECURSIVE SerialResponses(_, _, _)
SerialResponses(esp_logs, keyword, i) ==
    IF i > Len(esp_logs) THEN <<>>
    ELSE TagResponses(esp_logs[i].key, esp_logs[i].value, keyword, 1)
         \o SerialResponses(esp_logs, keyword, i + 1)

(***************************************************************************)
(* Lines the two loggers write.                                            *)
(***************************************************************************)
\* E (1) wifi: Status lost\n
S_ErrWifi ==
    <<"E"," ","(","1",")"," ","w","i","f","i",":"," ","S","t","a","t","u","s",
      " ","l","o","s","t","\n">>
\* E (7) wifi: retry\n
S_ErrWifiRetry ==
    <<"E"," ","(","7",")"," ","w","i","f","i",":"," ","r","e","t","r","y","\n">>
\* E (2) mqtt: ok\n
S_ErrMqtt ==
    <<"E"," ","(","2",")"," ","m","q","t","t",":"," ","o","k","\n">>
\* D (3) wifi: dbg\n
S_DbgWifi ==
    <<"D"," ","(","3",")"," ","w","i","f","i",":"," ","d","b","g","\n">>
\* W (4) mqtt: low\n
S_WarnMqtt ==
    <<"W"," ","(","4",")"," ","m","q","t","t",":"," ","l","o","w","\n">>
\* I (5) sys: Rebooting...\n
S_InfoReboot ==
    <<"I"," ","(","5",")"," ","s","y","s",":"," ","R","e","b","o","o","t","i",
      "n","g",".",".",".","\n">>
\* ESP-ROM:esp32s3\n
S_Banner ==
    <<"E","S","P","-","R","O","M",":","e","s","p","3","2","s","3","\n">>
\* V (6) wifi: v\n
S_Verbose ==
    <<"V"," ","(","6",")"," ","w","i","f","i",":"," ","v","\n">>
\* [MQTT] wc/command status\n
M_CmdStatus ==
    <<"[","M","Q","T","T","]"," ","w","c","/","c","o","m","m","a","n","d"," ",
      "s","t","a","t","u","s","\n">>
\* [MQTT] wc/command  \n
M_CmdBlank ==
    <<"[","M","Q","T","T","]"," ","w","c","/","c","o","m","m","a","n","d"," ",
      " ","\n">>
\* [MQTT] wc/command OK\n
M_CmdOK ==
    <<"[","M","Q","T","T","]"," ","w","c","/","c","o","m","m","a","n","d"," ",
      "O","K","\n">>
\* [MQTT] wc/status Status: OK\n
M_Status ==
    <<"[","M","Q","T","T","]"," ","w","c","/","s","t","a","t","u","s"," ","S",
      "t","a","t","u","s",":"," ","O","K","\n">>
\* [MQTT] wc/status/command on\n
M_StatusCmd ==
    <<"[","M","Q","T","T","]"," ","w","c","/","s","t","a","t","u","s","/","c",
      "o","m","m","a","n","d"," ","o","n","\n">>
\* [MQTT] homeassistant/wc/status on\n
M_HAStatus ==
    <<"[","M","Q","T","T","]"," ","h","o","m","e","a","s","s","i","s","t","a",
      "n","t","/","w","c","/","s","t","a","t","u","s"," ","o","n","\n">>
\* [MQTT] homeassistant/c {}\n
M_HAConfig ==
    <<"[","M","Q","T","T","]"," ","h","o","m","e","a","s","s","i","s","t","a",
      "n","t","/","c"," ","{","}","\n">>
\* [MQTT] wc/x\n
M_TopicOnly ==
    <<"[","M","Q","T","T","]"," ","w","c","/","x","\n">>
\* connected\n
M_Other ==
    <<"c","o","n","n","e","c","t","e","d","\n">>

SerialLines ==
    {S_ErrWifi, S_ErrWifiRetry, S_ErrMqtt, S_DbgWifi, S_WarnMqtt,
     S_InfoReboot, S_Banner, S_Verbose}
MqttLines ==
    {M_CmdStatus, M_CmdBlank, M_Status, M_StatusCmd, M_HAStatus, M_HAConfig,
     M_TopicOnly, M_Other}
CorrSerialLines == {S_ErrWifi, S_ErrMqtt, S_DbgWifi}
CorrMqttLines == {M_CmdStatus, M_CmdBlank, M_CmdOK, M_Status}
RunSerialLines == {S_ErrWifi, S_Banner}
RunMqttLines == {M_CmdStatus, M_CmdBlank, M_Status}

(***************************************************************************)
(* The state machine.                                                      *)
(***************************************************************************)
files == <<serial_exists, mqtt_exists, serial_file, mqtt_file>>
direct_rets == <<serial_ret, mqtt_ret>>
gr_locals == <<gr_serial_data, gr_mqtt_data, gr_correlations>>
corr_locals == <<mqtt_data, serial_data, correlations, correlation, cmd_idx>>

\* A LogAnalyzer has been constructed (lines 14-18) and none of its methods
\* has been called. Either log file may be absent; the loggers have written
\* nothing yet.
Init ==
    /\ serial_exists \in BOOLEAN
    /\ mqtt_exists \in BOOLEAN
    /\ serial_file = <<>>
    /\ mqtt_file = <<>>
    /\ now = 0
    /\ dest_writable \in BOOLEAN
    /\ pc = "idle"
    /\ caller = "none"
    /\ serial_ret = None
    /\ mqtt_ret = None
    /\ gr_serial_data = None
    /\ gr_mqtt_data = None
    /\ gr_correlations = None
    /\ mqtt_data = None
    /\ serial_data = None
    /\ correlations = <<>>
    /\ correlation = None
    /\ cmd_idx = 0
    /\ corr_ret = None
    /\ report = None
    /\ exception = "none"

\* the serial monitor appends a line to serial_monitor.log
WriteSerialLine(Lines, max) ==
    /\ serial_exists
    /\ Len(serial_file) < max
    /\ \E l \in Lines : serial_file' = Append(serial_file, l)
    /\ UNCHANGED <<serial_exists, mqtt_exists, mqtt_file, now, dest_writable,
                   pc, caller, direct_rets, gr_locals, corr_locals, corr_ret,
                   report, exception>>

\* the MQTT recorder appends a line to mqtt_messages.log
WriteMqttLine(Lines, max) ==
    /\ mqtt_exists
    /\ Len(mqtt_file) < max
    /\ \E l \in Lines : mqtt_file' = Append(mqtt_file, l)
    /\ UNCHANGED <<serial_exists, mqtt_exists, serial_file, now, dest_writable,
                   pc, caller, direct_rets, gr_locals, corr_locals, corr_ret,
                   report, exception>>

\* time passes
Tick ==
    /\ now < MaxClock
    /\ now' = now + 1
    /\ UNCHANGED <<files, dest_writable, pc, caller, direct_rets, gr_locals,
                   corr_locals, corr_ret, report, exception>>

\* a call of analyze_serial_log on the analyzer
CallAnalyzeSerial ==
    /\ pc = "idle"
    /\ serial_ret' = analyze_serial_log(serial_exists, serial_file)
    /\ pc' = "serial_returned"
    /\ UNCHANGED <<files, now, dest_writable, caller, mqtt_ret, gr_locals,
                   corr_locals, corr_ret, report, exception>>

\* a call of analyze_mqtt_log on the analyzer
CallAnalyzeMqtt ==
    /\ pc = "idle"
    /\ mqtt_ret' = analyze_mqtt_log(mqtt_exists, mqtt_file, now)
    /\ pc' = "mqtt_returned"
    /\ UNCHANGED <<files, now, dest_writable, caller, serial_ret, gr_locals,
                   corr_locals, corr_ret, report, exception>>

\* correlate_command_responses, line 106; by is "direct" for a call on the
\* analyzer and "generate_report" for the call of line 170
Corr106(by) ==
    /\ pc = (IF by = "direct" THEN "idle" ELSE "gr_170")
    /\ caller' = by
    /\ mqtt_data' = analyze_mqtt_log(mqtt_exists, mqtt_file, now)
    /\ pc' = "corr_107"
    /\ UNCHANGED <<files, now, dest_writable, direct_rets, gr_locals,
                   serial_data, correlations, correlation, cmd_idx, corr_ret,
                   report, exception>>

\* lines 107-109
Corr107 ==
    /\ pc = "corr_107"
    /\ serial_data' = analyze_serial_log(serial_exists, serial_file)
    /\ correlations' = <<>>
    /\ pc' = "corr_loop"
    /\ UNCHANGED <<files, now, dest_writable, caller, direct_rets, gr_locals,
                   mqtt_data, correlation, cmd_idx, corr_ret, report,
                   exception>>

\* one iteration of the loop of lines 111-134. split()[0] of line 125 raises
\* IndexError when the payload has no token; nothing catches it, in
\* correlate_command_responses, in generate_report or in the main block.
CorrLoop ==
    /\ pc = "corr_loop"
    /\ cmd_idx < Len(Get(mqtt_data, "commands_sent", <<>>))
    /\ LET cmd == Get(mqtt_data, "commands_sent", <<>>)[cmd_idx + 1]
           c0 == [command |-> cmd.payload,
                  topic |-> cmd.topic,
                  mqtt_responses |->
                      MqttResponses(cmd, Get(mqtt_data, "status_messages", <<>>)),
                  serial_responses |-> <<>>]
           tokens == Split(cmd.payload)
       IN  /\ cmd_idx' = cmd_idx + 1
           /\ IF tokens = <<>>
              THEN /\ correlation' = c0
                   /\ exception' = "IndexError"
                   /\ pc' = "raised"
                   /\ UNCHANGED correlations
              ELSE LET c1 == [c0 EXCEPT !.serial_responses =
                                 SerialResponses(Get(serial_data, "esp_logs", <<>>),
                                                 Lower(tokens[1]), 1)]
                   IN  /\ correlation' = c1
                       /\ correlations' = Append(correlations, c1)
                       /\ UNCHANGED <<pc, exception>>
    /\ UNCHANGED <<files, now, dest_writable, caller, direct_rets, gr_locals,
                   mqtt_data, serial_data, corr_ret, report>>

\* line 136, and the assignment of line 170 when generate_report called
CorrReturn ==
    /\ pc = "corr_loop"
    /\ cmd_idx = Len(Get(mqtt_data, "commands_sent", <<>>))
    /\ corr_ret' = correlations
    /\ IF caller = "generate_report"
       THEN /\ gr_correlations' = correlations
            /\ pc' = "gr_179"
       ELSE /\ pc' = "corr_returned"
            /\ UNCHANGED gr_correlations
    /\ UNCHANGED <<files, now, dest_writable, caller, direct_rets,
                   gr_serial_data, gr_mqtt_data, corr_locals, report,
                   exception>>

\* generate_report, lines 140-157
GR145 ==
    /\ pc = "idle"
    /\ gr_serial_data' = analyze_serial_log(serial_exists, serial_file)
    /\ pc' = "gr_160"
    /\ UNCHANGED <<files, now, dest_writable, caller, direct_rets,
                   gr_mqtt_data, gr_correlations, corr_locals, corr_ret,
                   report, exception>>

\* lines 160-167
GR160 ==
    /\ pc = "gr_160"
    /\ gr_mqtt_data' = analyze_mqtt_log(mqtt_exists, mqtt_file, now)
    /\ pc' = "gr_170"
    /\ UNCHANGED <<files, now, dest_writable, caller, direct_rets,
                   gr_serial_data, gr_correlations, corr_locals, corr_ret,
                   report, exception>>

\* lines 171-188. open(report_file, 'w') raises OSError when the file cannot
\* be created; nothing catches it.
GR179 ==
    /\ pc = "gr_179"
    /\ IF dest_writable
       THEN /\ report' = [serial_analysis |-> gr_serial_data,
                          mqtt_analysis |-> gr_mqtt_data,
                          correlations |-> gr_correlations,
                          timestamp |-> now]
            /\ pc' = "gr_done"
            /\ UNCHANGED exception
       ELSE /\ exception' = "OSError"
            /\ pc' = "raised"
            /\ UNCHANGED report
    /\ UNCHANGED <<files, now, dest_writable, caller, direct_rets, gr_locals,
                   corr_locals, corr_ret>>

\* generate_report while the two loggers keep writing
Next ==
    \/ WriteSerialLine(RunSerialLines, MaxRunSerialLines)
    \/ WriteMqttLine(RunMqttLines, MaxRunMqttLines)
    \/ Tick
    \/ GR145
    \/ GR160
    \/ Corr106("generate_report")
    \/ Corr107
    \/ CorrLoop
    \/ CorrReturn
    \/ GR179
Spec == Init /\ [][Next]_vars

\* analyze_serial_log applied to a log of up to MaxSerialLines lines
NextSerial ==
    \/ (pc = "idle" /\ WriteSerialLine(SerialLines, MaxSerialLines))
    \/ CallAnalyzeSerial
SpecSerial == Init /\ [][NextSerial]_vars

\* analyze_mqtt_log applied to a log of up to MaxMqttLines lines
NextMqtt ==
    \/ (pc = "idle" /\ WriteMqttLine(MqttLines, MaxMqttLines))
    \/ (pc = "idle" /\ Tick)
    \/ CallAnalyzeMqtt
SpecMqtt == Init /\ [][NextMqtt]_vars

\* correlate_command_responses applied to two logs written before the call
NextCorr ==
    \/ (pc = "idle" /\ WriteSerialLine(CorrSerialLines, MaxCorrSerialLines))
    \/ (pc = "idle" /\ WriteMqttLine(CorrMqttLines, MaxCorrMqttLines))
    \/ Corr106("direct")
    \/ Corr107
    \/ CorrLoop
    \/ CorrReturn
SpecCorr == Init /\ [][NextCorr]_vars

(***************************************************************************)
(* Vocabulary of the properties.                                           *)
(***************************************************************************)
RECURSIVE ConcatValues(_, _)
\* the per-key sequences of an ordered dictionary, concatenated in key order
ConcatValues(d, i) ==
    IF i > Len(d) THEN <<>> ELSE d[i].value \o ConcatValues(d, i + 1)
IsErrorRecord(r) == r.level = "E"
Lines(file, Test(_)) == {k \in 1..Len(file) : Test(file[k])}
IsRecordLine(line) == SerialMatch(line).matched
IsDebugLine(line) == SerialMatch(line).matched /\ SerialMatch(line).level = "D"
IsSeverityLine(line) ==
    SerialMatch(line).matched /\ SerialMatch(line).level \in {"E", "W", "I"}
\* in how many of the three severity lists a record occurs
ListsHolding(res, r) ==
    Cardinality({n \in {"errors", "warnings", "info_messages"} :
                    r \in Range(res[n])})
SerialAnalyzed == pc = "serial_returned" /\ serial_exists
MqttAnalyzed == pc = "mqtt_returned" /\ mqtt_exists
CorrelateEnded == pc \in {"corr_returned", "raised"}
Commands == Get(mqtt_data, "commands_sent", <<>>)
Statuses == Get(mqtt_data, "status_messages", <<>>)
IsBlank(text) == \A i \in 1..Len(text) : text[i] \in Whitespace
\* every record of every component tag, as a device response
DeviceRecords(data) ==
    LET all == ConcatValues(Get(data, "esp_logs", <<>>), 1)
    IN  [i \in 1..Len(all) |-> [tag |-> all[i].tag, message |-> all[i].message]]
\* the statuses whose lower-cased payload holds the lower-cased text
StatusesHolding(text, statuses) ==
    LET Holds(s) == Contains(Lower(text), Lower(s.payload))
    IN  SelectSeq(statuses, Holds)
\* the device-side keyword of a payload: its first token, lower-cased, and
\* the empty string when it has no token
KeywordOf(text) ==
    IF Split(text) = <<>> THEN <<>> ELSE Lower(Split(text)[1])
\* a bus record without its observation time
Untimed(r) == [topic |-> r.topic, payload |-> r.payload]
UntimedSeq(s) == [i \in 1..Len(s) |-> Untimed(s[i])]
\* the records analyze_mqtt_log parses from the file, in file order
ParsedBusRecords(file) ==
    LET Parses(line) == Contains(MQTT_MARKER, line) /\ MqttMatch(line).matched
        parsed == SelectSeq(file, Parses)
    IN  [i \in 1..Len(parsed) |->
            [topic |-> MqttMatch(parsed[i]).topic,
             payload |-> Strip(MqttMatch(parsed[i]).payload)]]
IsCommandTopic(r) == Contains(CMD_SEGMENT, r.topic)
IsStatusTopic(r) == Contains(STATUS_SEGMENT, r.topic)
IsConfigTopic(r) == Contains(HA_PREFIX, r.topic)

(***************************************************************************)
(* C1. A command whose payload is empty or all white space still gets its  *)
(* Correlation: correlate_command_responses ends by returning, with one    *)
(* Correlation per command, and the blank command's device responses are   *)
(* all records of all component tags.                                      *)
(***************************************************************************)
C1_BlankCommandCorrelated ==
    (CorrelateEnded /\ \E i \in 1..Len(Commands) : IsBlank(Commands[i].payload))
    => /\ pc = "corr_returned"
       /\ Len(corr_ret) = Len(Commands)
       /\ \A i \in 1..Len(Commands) :
             IsBlank(Commands[i].payload)
             => corr_ret[i].serial_responses = DeviceRecords(serial_data)

(***************************************************************************)
(* C2. A line recognized as a restart banner adds one entry to reboots and *)
(* nothing to the severity lists or the tag index: the records come from   *)
(* the lines that are not banners.                                         *)
(***************************************************************************)
C2_BannerOnlyRestart ==
    SerialAnalyzed
    => LET IsPlainRecord(line) == IsRecordLine(line) /\ ~IsRebootLine(line)
           IsPlainSeverity(line) == IsSeverityLine(line) /\ ~IsRebootLine(line)
       IN  /\ Len(serial_ret.reboots)
                = Cardinality(Lines(serial_file, IsRebootLine))
           /\ Len(ConcatValues(serial_ret.esp_logs, 1))
                = Cardinality(Lines(serial_file, IsPlainRecord))
           /\ Len(serial_ret.errors) + Len(serial_ret.warnings)
                + Len(serial_ret.info_messages)
                = Cardinality(Lines(serial_file, IsPlainSeverity))

(***************************************************************************)
(* C3, as claimed. Every record of the tag index is in exactly one of the  *)
(* severity lists, so the index holds len(errors) + len(warnings) +        *)
(* len(info_messages) records.                                             *)
(***************************************************************************)
C3_IndexIsSeverityLists ==
    SerialAnalyzed
    => LET all == ConcatValues(serial_ret.esp_logs, 1)
       IN  /\ Len(all) = Len(serial_ret.errors) + Len(serial_ret.warnings)
                           + Len(serial_ret.info_messages)
           /\ \A i \in 1..Len(all) : ListsHolding(serial_ret, all[i]) = 1

(***************************************************************************)
(* C3, amended. A line of level E, W or I yields a record in exactly one   *)
(* severity list and in the tag index; a line of level D yields a record   *)
(* in the tag index only; a line of any other level yields none. So the    *)
(* index holds len(errors) + len(warnings) + len(info_messages) records    *)
(* plus one per D line.                                                    *)
(***************************************************************************)
C3_IndexIsSeverityListsPlusDebug ==
    SerialAnalyzed
    => LET all == ConcatValues(serial_ret.esp_logs, 1)
       IN  /\ Len(all) = Len(serial_ret.errors) + Len(serial_ret.warnings)
                           + Len(serial_ret.info_messages)
                           + Cardinality(Lines(serial_file, IsDebugLine))
           /\ Len(all) = Cardinality(Lines(serial_file, IsRecordLine))
           /\ \A i \in 1..Len(all) :
                 ListsHolding(serial_ret, all[i])
                   = (IF all[i].level = "D" THEN 0 ELSE 1)
C3_Witness ==
    /\ SerialAnalyzed
    /\ \E i, j, k \in 1..Len(serial_file) :
          /\ serial_file[i] = S_DbgWifi
          /\ serial_file[j] = S_ErrWifi
          /\ serial_file[k] = S_Verbose
    /\ Len(ConcatValues(serial_ret.esp_logs, 1)) = 2
    /\ Len(serial_ret.errors) = 1

(***************************************************************************)
(* C4, as claimed. Each of the three classifications is decided by its own *)
(* test alone: commands_sent holds every parsed record with a command      *)
(* topic, status_messages every one with a status topic, and the config    *)
(* count counts every one in the configuration namespace.                  *)
(***************************************************************************)
C4_IndependentCategories ==
    MqttAnalyzed
    => LET parsed == ParsedBusRecords(mqtt_file)
       IN  /\ UntimedSeq(mqtt_ret.commands_sent)
                = SelectSeq(parsed, IsCommandTopic)
           /\ UntimedSeq(mqtt_ret.status_messages)
                = SelectSeq(parsed, IsStatusTopic)
           /\ mqtt_ret.home_assistant_configs
                = Len(SelectSeq(parsed, IsConfigTopic))

(***************************************************************************)
(* C4, amended. Each parsed record gets the first category whose test it   *)
(* passes, in the order command, status, config: commands_sent holds every *)
(* record with a command topic, status_messages every record with a status *)
(* topic that is not a command topic, and the config count counts the      *)
(* records of the configuration namespace that are neither.                *)
(***************************************************************************)
C4_FirstMatchingCategory ==
    MqttAnalyzed
    => LET parsed == ParsedBusRecords(mqtt_file)
           StatusOnly(r) == IsStatusTopic(r) /\ ~IsCommandTopic(r)
           ConfigOnly(r) ==
               IsConfigTopic(r) /\ ~IsCommandTopic(r) /\ ~IsStatusTopic(r)
       IN  /\ UntimedSeq(mqtt_ret.commands_sent)
                = SelectSeq(parsed, IsCommandTopic)
           /\ UntimedSeq(mqtt_ret.status_messages)
                = SelectSeq(parsed, StatusOnly)
           /\ mqtt_ret.home_assistant_configs
                = Len(SelectSeq(parsed, ConfigOnly))
C4_Witness ==
    /\ MqttAnalyzed
    /\ mqtt_file = <<M_StatusCmd, M_HAStatus>>
    /\ Len(mqtt_ret.commands_sent) = 1
    /\ Len(mqtt_ret.status_messages) = 1
    /\ mqtt_ret.home_assistant_configs = 0

(***************************************************************************)
(* C5. correlate_command_responses returns one Correlation per command, in *)
(* the order of the commands, the i-th with the i-th command's payload and *)
(* topic; a command nothing matches has two empty response sequences.      *)
(***************************************************************************)
C5_OneCorrelationPerCommand ==
    CorrelateEnded
    => /\ pc = "corr_returned"
       /\ Len(corr_ret) = Len(Commands)
       /\ \A i \in 1..Len(Commands) :
             /\ corr_ret[i].command = Commands[i].payload
             /\ corr_ret[i].topic = Commands[i].topic
             /\ (/\ StatusesHolding(Commands[i].payload, Statuses) = <<>>
                 /\ \A k \in 1..Len(DeviceRecords(serial_data)) :
                       ~Contains(KeywordOf(Commands[i].payload),
                                 Lower(DeviceRecords(serial_data)[k].message)))
                => /\ corr_ret[i].mqtt_responses = <<>>
                   /\ corr_ret[i].serial_responses = <<>>

C7_PersistFailureHandled ==
    ~dest_writable => ~(pc = "raised" /\ exception = "OSError")

(***************************************************************************)
(* C8. With one log file missing the correlation still runs to its end:    *)
(* the missing stream's summary is the error result; with the device log   *)
(* missing every command gets a Correlation with its bus-side responses    *)
(* and no device responses; with the bus log missing there is no           *)
(* Correlation.                                                            *)
(***************************************************************************)
C8_MissingStreamTolerated ==
    (CorrelateEnded /\ ~(serial_exists /\ mqtt_exists))
    => /\ pc = "corr_returned"
       /\ ~serial_exists
          => /\ DOMAIN serial_data = {"error"}
             /\ mqtt_exists =>
                   UntimedSeq(Commands)
                     = SelectSeq(ParsedBusRecords(mqtt_file), IsCommandTopic)
             /\ Len(corr_ret) = Len(Commands)
             /\ \A i \in 1..Len(Commands) :
                   /\ corr_ret[i].mqtt_responses
                        = StatusesHolding(Commands[i].payload, Statuses)
                   /\ corr_ret[i].serial_responses = <<>>
       /\ ~mqtt_exists
          => /\ DOMAIN mqtt_data = {"error"}
             /\ corr_ret = <<>>

(***************************************************************************)
(* C9, as claimed. The per-tag sequences, concatenated in the order the    *)
(* tags first occurred and filtered to the ERROR records, are the errors   *)
(* list.                                                                   *)
(***************************************************************************)
C9_TagOrderIsErrorOrder ==
    SerialAnalyzed
    => SelectSeq(ConcatValues(serial_ret.esp_logs, 1), IsErrorRecord)
         = serial_ret.errors

(***************************************************************************)
(* C9, amended. The per-tag sequences, concatenated in the order the tags  *)
(* first occurred and filtered to the ERROR records, are the errors list   *)
(* grouped by tag: the same records, in the order of the errors list       *)
(* within each tag, the tags in the order of their first record.           *)
(***************************************************************************)
RECURSIVE ErrorsByTag(_, _, _)
ErrorsByTag(errors, d, i) ==
    IF i > Len(d) THEN <<>>
    ELSE LET HasTag(r) == r.tag = d[i].key
         IN  SelectSeq(errors, HasTag) \o ErrorsByTag(errors, d, i + 1)
C9_TagOrderIsErrorOrderWithinTag ==
    SerialAnalyzed
    => /\ SelectSeq(ConcatValues(serial_ret.esp_logs, 1), IsErrorRecord)
            = ErrorsByTag(serial_ret.errors, serial_ret.esp_logs, 1)
       /\ Len(ErrorsByTag(serial_ret.errors, serial_ret.esp_logs, 1))
            = Len(serial_ret.errors)
       /\ \A i, j \in 1..Len(serial_ret.esp_logs) :
             serial_ret.esp_logs[i].key = serial_ret.esp_logs[j].key => i = j
C9_Witness ==
    /\ SerialAnalyzed
    /\ serial_file = <<S_ErrWifi, S_ErrMqtt, S_ErrWifiRetry>>
    /\ Len(serial_ret.errors) = 3
    /\ Len(serial_ret.esp_logs) = 2
    /\ serial_ret.errors[2].tag # serial_ret.errors[3].tag

(***************************************************************************)
(* C10. In the saved report the correlations belong to the report's own    *)
(* summaries: their commands are the commands of mqtt_analysis, in order,  *)
(* and every attached response is a record of mqtt_analysis or of          *)
(* serial_analysis (observation times left aside).                         *)
(***************************************************************************)
C10_ReportCorrelatesItsOwnSummaries ==
    "correlations" \in DOMAIN report
    => LET cmds == Get(report.mqtt_analysis, "commands_sent", <<>>)
           stats == Get(report.mqtt_analysis, "status_messages", <<>>)
           recs == DeviceRecords(report.serial_analysis)
           cs == report.correlations
       IN  /\ [i \in 1..Len(cs) |-> [topic |-> cs[i].topic, payload |-> cs[i].command]]
                = UntimedSeq(cmds)
           /\ \A i \in 1..Len(cs) :
                 /\ Range(UntimedSeq(cs[i].mqtt_responses))
                      \subseteq Range(UntimedSeq(stats))
                 /\ Range(cs[i].serial_responses) \subseteq Range(recs)
====
